---- MODULE Spec2Model ----
(***************************************************************************)
(* Model of the content cache and dispatcher (ceramic/src/kubo/cache.rs),  *)
(* of the stream state cache (ceramic/src/stream/operator.rs), and of      *)
(* commit acceptance and batch resolution (file-system/src/file/client.rs, *)
(* Client::save_event and Client::load_files).                             *)
(***************************************************************************)
EXTENDS Integers, Sequences, FiniteSets, TLC

(***************************************************************************)
(* Bounds                                                                  *)
(***************************************************************************)
\* number of calls the callers of the content cache make in one behaviour
MaxCacheCalls == 4

\* the cache_size the content cache is constructed with (Cached::new)
CacheSize == 2

\* content addresses the callers of the cache use
Cids == {"k1", "k2", "k3"}

\* the bytes the callers upload: not the bytes the remote block store serves
Blocks == {"b2"}

\* errors of the remote block collaborator (Client::load_cid)
FetchErrors == {"e_timeout", "e_notfound"}

\* concurrent callers of the content cache
CacheProcs == {"p1", "p2"}

\* the bytes the remote block store serves for an address
RemoteData == [k \in Cids |-> "b1"]

VARIABLES
    cache,      \* Cached.cache: the LruCache, most recently used entry first
    lock,       \* holder of the tokio Mutex around Cached.cache, or "free"
    queue,      \* Cached.queue: the tasks inserted into the fang queue, in order
    cpc,        \* position of every caller of the content cache
    carg,       \* the arguments of the call in progress: [cid, block]
    cdata,      \* load_cid: the bytes the remote fetch returned
    cret,       \* the value the call returned
    cfetch,     \* remote fetches the call in progress has made
    ccalls,     \* calls started so far
    lastOp,     \* the last operation on the LruCache: [op, cid, data, afterPut]
    evicted,    \* the address the last eviction removed, "-" once it is back
    useOrder,   \* the addresses used so far (a get that hits, a put), the
                \* most recently used first
    store,      \* the stream record store: for every stream its record
    now,        \* Utc::now(), in ticks
    apc,        \* position of every caller of save_event
    aarg,       \* the arguments of the call in progress: [stream, ev]
    astream,    \* save_event: the local `stream`
    achain,     \* save_event: the local `commits`, as loaded
    aret,       \* the value save_event returned
    ahist,      \* what the call in progress has done so far
    aprev,      \* what the caller's previous call was and did
    abefore,    \* the record of the stream when the call began
    acalls,     \* save_event calls started so far
    ranchor,    \* the dispatcher called on its own (request_anchor,
                \* publish_message): the calls so far, what the last one did
    scache,     \* CachedStreamLoader.cache: stream identifier -> state
    sremote,    \* what the inner stream loader serves: per stream, a version
    slast,      \* CachedStreamLoader: the last call and what it did
    fpc,        \* position of the caller of load_files
    fcall,      \* load_files: the arguments and what the collaborators hold
    ffiles,     \* load_files, indexFile branch: the local `files`
    fret        \* the value load_files returned

cacheVars == <<cache, lock, queue, cpc, carg, cdata, cret, cfetch,
               ccalls, lastOp, evicted, useOrder>>

acceptVars == <<store, now, apc, aarg, astream, achain, aret, ahist, aprev,
                abefore, acalls>>

callerVars == <<lock, cpc, carg, cdata, cret, cfetch, ccalls>>

\* the callers of load_cid and block_upload
callVars == <<cpc, carg, cdata, cret, cfetch, ccalls>>

loaderVars == <<scache, sremote, slast>>

fileVars == <<fpc, fcall, ffiles, fret>>

restVars == <<ranchor, scache, sremote, slast, fpc, fcall, ffiles, fret>>

vars == <<cache, lock, queue, cpc, carg, cdata, cret, cfetch,
          ccalls, lastOp, evicted, useOrder, store, now, apc, aarg, astream,
          achain, aret, ahist, aprev, abefore, acalls, ranchor, scache,
          sremote, slast, fpc, fcall, ffiles, fret>>

(***************************************************************************)
(* Results                                                                 *)
(***************************************************************************)
Ok(v) == [ok |-> TRUE, val |-> v]

Err(e) == [ok |-> FALSE, err |-> e]

NoRet == [ok |-> FALSE, err |-> "pending"]

NoArg == [cid |-> "-", block |-> "-"]

(***************************************************************************)
(* lru::LruCache, as Cached uses it: a sequence of entries, most recently  *)
(* used first, of at most CacheSize entries.                               *)
(***************************************************************************)
Keys(c) == {c[i].cid : i \in 1..Len(c)}

RECURSIVE Without(_, _)
Without(c, k) ==
    IF c = <<>> THEN <<>>
    ELSE IF Head(c).cid = k THEN Without(Tail(c), k)
    ELSE <<Head(c)>> \o Without(Tail(c), k)

Lookup(c, k) == (CHOOSE i \in 1..Len(c) : c[i].cid = k)

\* LruCache::get: the bytes of the entry, which becomes the most recent
LruGet(c, k) == IF k \in Keys(c) THEN Ok(c[Lookup(c, k)].data) ELSE Err("miss")

\* a get that does not mark the entry recently used
LruGetNoTouch(c, k) == c

LruGetTouch(c, k) ==
    IF k \in Keys(c) THEN <<c[Lookup(c, k)]>> \o Without(c, k) ELSE c

\* a put that keeps the bytes an address already has
LruPutKeepOld(c, k, v) ==
    IF k \in Keys(c) THEN <<c[Lookup(c, k)]>> \o Without(c, k)
    ELSE IF Len(c) >= CacheSize
         THEN <<[cid |-> k, data |-> v]>> \o SubSeq(c, 1, CacheSize - 1)
         ELSE <<[cid |-> k, data |-> v]>> \o c

\* a put that inserts without looking for an entry of the same address
LruPutAppend(c, k, v) ==
    IF Len(c) >= CacheSize
    THEN <<[cid |-> k, data |-> v]>> \o SubSeq(c, 1, CacheSize - 1)
    ELSE <<[cid |-> k, data |-> v]>> \o c

\* LruCache::put: replace or insert as the most recent entry; a new key in a
\* full cache first drops the least recently used entry (the last one)
LruPut(c, k, v) ==
    IF k \in Keys(c) THEN <<[cid |-> k, data |-> v]>> \o Without(c, k)
    ELSE IF Len(c) >= CacheSize
         THEN <<[cid |-> k, data |-> v]>> \o SubSeq(c, 1, CacheSize - 1)
         ELSE <<[cid |-> k, data |-> v]>> \o c

\* the history of uses: address k has just been used
RECURSIVE Remove(_, _)
Remove(s, k) ==
    IF s = <<>> THEN <<>>
    ELSE IF Head(s) = k THEN Remove(Tail(s), k)
    ELSE <<Head(s)>> \o Remove(Tail(s), k)

Used(s, k) == <<k>> \o Remove(s, k)

\* the history of evictions: the put of k took the cache from c to d
Evicted(c, d, k, was) ==
    IF Keys(c) \ Keys(d) # {} THEN CHOOSE x \in Keys(c) \ Keys(d) : TRUE
    ELSE IF was = k THEN "-"
    ELSE was

(***************************************************************************)
(* Enqueue on the fang queue: insert_task may fail; the callers log the    *)
(* error and go on.                                                        *)
(***************************************************************************)
InsertTask(q, task, inserted) == IF inserted THEN Append(q, task) ELSE q

BlockUploadTask(k, b) == [kind |-> "BlockUpload", cid |-> k, block |-> b]

\* a block_upload that returns the error of insert_task
BlockUploadResultPropagated(inserted) ==
    IF inserted THEN Ok("unit") ELSE Err("insert_task")

\* what block_upload returns, given whether insert_task succeeded
BlockUploadResult(inserted) == Ok("unit")

\* a load_cid that wraps the error of the remote fetch
LoadCidFetchFailedWrapped(e) == Err("load_cid failed")

\* what load_cid returns when the remote fetch failed with error e
LoadCidFetchFailed(e) == Err(e)

\* a load_cid that keeps the guard of the cache lock until it returns
GuardAfterGetHeld(p) == p

\* lines 48-51: the guard of the lookup is dropped at the end of its block,
\* before the hit is returned and before the remote fetch
GuardAfterGet(p) == "free"

(***************************************************************************)
(* Initial state: Cached::new with an empty cache and an empty queue       *)
(***************************************************************************)
CacheInit ==
    /\ cache = <<>>
    /\ lock = "free"
    /\ queue = <<>>
    /\ cpc = [p \in CacheProcs |-> "idle"]
    /\ carg = [p \in CacheProcs |-> NoArg]
    /\ cdata = [p \in CacheProcs |-> "-"]
    /\ cret = [p \in CacheProcs |-> NoRet]
    /\ cfetch = [p \in CacheProcs |-> 0]
    /\ ccalls = 0
    /\ lastOp = [op |-> "none", cid |-> "-", data |-> "-", afterPut |-> FALSE]
    /\ evicted = "-"
    /\ useOrder = <<>>


(***************************************************************************)
(* Cached::load_cid                                                        *)
(***************************************************************************)
LoadCidCall(p, k) ==
    /\ cpc[p] \in {"idle", "done"}
    /\ ccalls < MaxCacheCalls
    /\ ccalls' = ccalls + 1
    /\ cpc' = [cpc EXCEPT ![p] = "lc_lock1"]
    /\ carg' = [carg EXCEPT ![p] = [cid |-> k, block |-> "-"]]
    /\ cret' = [cret EXCEPT ![p] = NoRet]
    /\ cfetch' = [cfetch EXCEPT ![p] = 0]
    /\ cdata' = [cdata EXCEPT ![p] = "-"]
    /\ UNCHANGED <<cache, lock, queue, lastOp, evicted, useOrder>>

\* line 49: self.cache.lock().await
LoadCidLock1(p) ==
    /\ cpc[p] = "lc_lock1"
    /\ lock = "free"
    /\ lock' = p
    /\ cpc' = [cpc EXCEPT ![p] = "lc_get"]
    /\ UNCHANGED <<cache, queue, carg, cdata, cret, cfetch, ccalls,
                   lastOp, evicted, useOrder>>

\* lines 50-54: cache.get, the guard is dropped, a hit returns
LoadCidGet(p) ==
    /\ cpc[p] = "lc_get"
    /\ lock = p
    /\ LET k == carg[p].cid
           r == LruGet(cache, k)
       IN /\ cache' = LruGetTouch(cache, k)
          /\ lock' = GuardAfterGet(p)
          /\ lastOp' = [op |-> "get", cid |-> k,
                         data |-> IF r.ok THEN r.val ELSE "miss",
                         afterPut |-> lastOp.op = "put" /\ lastOp.cid = k]
          /\ UNCHANGED evicted
          /\ IF r.ok
             THEN /\ cret' = [cret EXCEPT ![p] = r]
                  /\ cpc' = [cpc EXCEPT ![p] = "done"]
                  /\ useOrder' = Used(useOrder, k)
             ELSE /\ cpc' = [cpc EXCEPT ![p] = "lc_fetch"]
                  /\ UNCHANGED <<cret, useOrder>>
    /\ UNCHANGED <<queue, carg, cdata, cfetch, ccalls>>

\* line 55: self.client.load_cid(cid).await, which succeeds or fails
LoadCidFetch(p) ==
    /\ cpc[p] = "lc_fetch"
    /\ cfetch' = [cfetch EXCEPT ![p] = @ + 1]
    /\ \/ /\ cdata' = [cdata EXCEPT ![p] = RemoteData[carg[p].cid]]
          /\ cpc' = [cpc EXCEPT ![p] = "lc_lock2"]
          /\ UNCHANGED cret
       \/ \E e \in FetchErrors :
             /\ cret' = [cret EXCEPT ![p] = LoadCidFetchFailed(e)]
             /\ cdata' = [cdata EXCEPT ![p] = e]
             /\ cpc' = [cpc EXCEPT ![p] = "done"]
    /\ UNCHANGED <<cache, lock, queue, carg, ccalls, lastOp, evicted, useOrder>>

\* line 57: self.cache.lock().await
LoadCidLock2(p) ==
    /\ cpc[p] = "lc_lock2"
    /\ lock = "free"
    /\ lock' = p
    /\ cpc' = [cpc EXCEPT ![p] = "lc_put"]
    /\ UNCHANGED <<cache, queue, carg, cdata, cret, cfetch, ccalls,
                   lastOp, evicted, useOrder>>

\* lines 58-59: cache.put, Ok(data)
LoadCidPut(p) ==
    /\ cpc[p] = "lc_put"
    /\ lock = p
    /\ cache' = LruPut(cache, carg[p].cid, cdata[p])
    /\ lock' = "free"
    /\ useOrder' = Used(useOrder, carg[p].cid)
    /\ lastOp' = [op |-> "insert", cid |-> carg[p].cid, data |-> cdata[p],
                   afterPut |-> FALSE]
    /\ evicted' = Evicted(cache, cache', carg[p].cid, evicted)
    /\ cret' = [cret EXCEPT ![p] = Ok(cdata[p])]
    /\ cpc' = [cpc EXCEPT ![p] = "done"]
    /\ UNCHANGED <<queue, carg, cdata, cfetch, ccalls>>

(***************************************************************************)
(* Cached::block_upload                                                    *)
(***************************************************************************)
BlockUploadCall(p, k, b) ==
    /\ cpc[p] \in {"idle", "done"}
    /\ ccalls < MaxCacheCalls
    /\ ccalls' = ccalls + 1
    /\ cpc' = [cpc EXCEPT ![p] = "bu_lock"]
    /\ carg' = [carg EXCEPT ![p] = [cid |-> k, block |-> b]]
    /\ cret' = [cret EXCEPT ![p] = NoRet]
    /\ cfetch' = [cfetch EXCEPT ![p] = 0]
    /\ cdata' = [cdata EXCEPT ![p] = "-"]
    /\ UNCHANGED <<cache, lock, queue, lastOp, evicted, useOrder>>

\* line 69: self.cache.lock().await
BlockUploadLock(p) ==
    /\ cpc[p] = "bu_lock"
    /\ lock = "free"
    /\ lock' = p
    /\ cpc' = [cpc EXCEPT ![p] = "bu_put"]
    /\ UNCHANGED <<cache, queue, carg, cdata, cret, cfetch, ccalls,
                   lastOp, evicted, useOrder>>

\* line 69: .put(cid, block.clone()); the guard is dropped with the statement
BlockUploadPut(p) ==
    /\ cpc[p] = "bu_put"
    /\ lock = p
    /\ cache' = LruPut(cache, carg[p].cid, carg[p].block)
    /\ lock' = "free"
    /\ useOrder' = Used(useOrder, carg[p].cid)
    /\ lastOp' = [op |-> "put", cid |-> carg[p].cid, data |-> carg[p].block,
                   afterPut |-> FALSE]
    /\ evicted' = Evicted(cache, cache', carg[p].cid, evicted)
    /\ cpc' = [cpc EXCEPT ![p] = "bu_enqueue"]
    /\ UNCHANGED <<queue, carg, cdata, cret, cfetch, ccalls>>

\* lines 70-74: insert_task, whose error is logged, then Ok(())
BlockUploadEnqueue(p) ==
    /\ cpc[p] = "bu_enqueue"
    /\ \E inserted \in BOOLEAN :
          /\ queue' = InsertTask(queue,
                                 BlockUploadTask(carg[p].cid, carg[p].block),
                                 inserted)
          /\ cret' = [cret EXCEPT ![p] = BlockUploadResult(inserted)]
          /\ cdata' = [cdata EXCEPT ![p] = IF inserted THEN "queued" ELSE "dropped"]
    /\ cpc' = [cpc EXCEPT ![p] = "done"]
    /\ UNCHANGED <<cache, lock, carg, cfetch, ccalls, lastOp,
                   evicted, useOrder>>

CacheNext ==
    \/ (\E p \in CacheProcs, k \in Cids : LoadCidCall(p, k)) /\ UNCHANGED <<acceptVars, restVars>>
    \/ (\E p \in CacheProcs : LoadCidLock1(p)) /\ UNCHANGED <<acceptVars, restVars>>
    \/ (\E p \in CacheProcs : LoadCidGet(p)) /\ UNCHANGED <<acceptVars, restVars>>
    \/ (\E p \in CacheProcs : LoadCidFetch(p)) /\ UNCHANGED <<acceptVars, restVars>>
    \/ (\E p \in CacheProcs : LoadCidLock2(p)) /\ UNCHANGED <<acceptVars, restVars>>
    \/ (\E p \in CacheProcs : LoadCidPut(p)) /\ UNCHANGED <<acceptVars, restVars>>
    \/ (\E p \in CacheProcs, k \in Cids, b \in Blocks : BlockUploadCall(p, k, b)) /\ UNCHANGED <<acceptVars, restVars>>
    \/ (\E p \in CacheProcs : BlockUploadLock(p)) /\ UNCHANGED <<acceptVars, restVars>>
    \/ (\E p \in CacheProcs : BlockUploadPut(p)) /\ UNCHANGED <<acceptVars, restVars>>
    \/ (\E p \in CacheProcs : BlockUploadEnqueue(p)) /\ UNCHANGED <<acceptVars, restVars>>

(***************************************************************************)
(* Commit acceptance: Client::save_event (file-system/src/file/client.rs)  *)
(***************************************************************************)
\* number of save_event calls in one behaviour
MaxAcceptCalls == 2

\* the last tick of the clock
MaxTime == 1

\* concurrent callers of save_event
AcceptProcs == {"a1", "a2"}

Streams == {"S1", "S2"}

\* The commits the callers submit.  prev: the address of the predecessor
\* ("-" for a genesis commit, "zz" an address no chain holds); prevOk: whether
\* event.prev() decodes; model: the model the genesis header names ("-" none);
\* resources: the models the signature's capability lists; exp: the tick at
\* which the signature expires (0: never).
Events ==
    [g1 |-> [kind |-> "Signed", prev |-> "-", prevOk |-> TRUE, model |-> "M1",
             resources |-> {"M1"}, exp |-> 0, bytes |-> "jws_g1"],
     g0 |-> [kind |-> "Signed", prev |-> "-", prevOk |-> TRUE, model |-> "-",
             resources |-> {"M1"}, exp |-> 0, bytes |-> "jws_g0"],
     c1 |-> [kind |-> "Signed", prev |-> "g1", prevOk |-> TRUE, model |-> "-",
             resources |-> {"M1"}, exp |-> 0, bytes |-> "jws_c1"],
     c2 |-> [kind |-> "Signed", prev |-> "g1", prevOk |-> TRUE, model |-> "-",
             resources |-> {"M1"}, exp |-> 1, bytes |-> "jws_c2"],
     v1 |-> [kind |-> "Signed", prev |-> "g1", prevOk |-> TRUE, model |-> "-",
             resources |-> {"M2"}, exp |-> 0, bytes |-> "jws_v1"],
     x1 |-> [kind |-> "Signed", prev |-> "zz", prevOk |-> TRUE, model |-> "-",
             resources |-> {"M1"}, exp |-> 0, bytes |-> "jws_x1"],
     x2 |-> [kind |-> "Signed", prev |-> "zz", prevOk |-> TRUE, model |-> "-",
             resources |-> {"M2"}, exp |-> 0, bytes |-> "jws_x2"],
     m1 |-> [kind |-> "Signed", prev |-> "g1", prevOk |-> FALSE, model |-> "-",
             resources |-> {"M1"}, exp |-> 0, bytes |-> "jws_m1"],
     n1 |-> [kind |-> "Anchor", prev |-> "g1", prevOk |-> TRUE, model |-> "-",
             resources |-> {}, exp |-> 0, bytes |-> "proof_n1"]]

EventIds == DOMAIN Events

NoRecord == [present |-> FALSE]

NoCall == [stream |-> "-", ev |-> "-"]

\* what a call has done: the outcome of get_dapp_ceramic, of load_stream, of
\* Stream::new, of load_events and of Stream::state, whether and when the
\* signature was verified, whether the commit follows the last loaded commit,
\* the calls of save_stream and the ones that succeeded, the outcome of
\* upload_event, the calls of insert_task and the ones that failed
NoHist == [ceramic |-> "-", read |-> "-", created |-> "-", loaded |-> "-",
           folded |-> "-", checkedAt |-> -1, verified |-> FALSE,
           extends |-> FALSE, saves |-> 0, persisted |-> 0, uploaded |-> "-",
           inserts |-> 0, dropped |-> 0]

NoPrev == [call |-> NoCall, ret |-> NoRet, persisted |-> 0, extends |-> FALSE]

Range(f) == {f[i] : i \in DOMAIN f}

Last(q) == q[Len(q)]

\* the errors save_event returns
AnchorNotSupported == Err("anchor commit not supported")

UnknownStream == Err("publishing commit with stream_id not found in store")

MissingPredecessor == Err("donot have prev commit")

SignatureInvalid == Err("signature: resource models do not contain the model")

CommitExpired == Err("signature: expired")

\* line 348: signed.is_gensis()
IsGenesis(e) == Events[e].prev = "-" /\ Events[e].prevOk

\* EventsLoader::load_events(ceramic, stream_id, Some(tip)): the commits from
\* the genesis commit to tip, in chain order, found by the prev links
RECURSIVE LoadEvents(_)
LoadEvents(tip) ==
    IF Events[tip].prev = "-" THEN <<tip>>
    ELSE LoadEvents(Events[tip].prev) \o <<tip>>

\* Stream::state(commits): the fold of the commits, genesis first.  The
\* genesis commit sets the model and the controller; every commit applies its
\* payload to the content and becomes the tip.
RECURSIVE FoldContent(_)
FoldContent(commits) ==
    IF commits = <<>> THEN <<>>
    ELSE Append(FoldContent(SubSeq(commits, 1, Len(commits) - 1)),
                Events[Last(commits)].bytes)

StreamStateOf(commits) ==
    [model |-> Events[commits[1]].model,
     controllers |-> <<"did:" \o commits[1]>>,
     content |-> FoldContent(commits),
     tip |-> Last(commits)]

\* Event::verify_signature with ResourceModelsContain(model) and
\* ExpirationTimeBefore(Utc::now())
VerifyError(e, model, t) ==
    IF model \notin Events[e].resources THEN SignatureInvalid
    ELSE IF Events[e].exp # 0 /\ Events[e].exp <= t THEN CommitExpired
    ELSE Ok("unit")

\* a match that sends an anchor commit down the signed branch
RejectAnchorNever(e) == FALSE

\* lines 336, 396-398: the match on event.value
RejectAnchor(e) == Events[e].kind = "Anchor"

\* a resolution that goes on with the record although its load failed
ResolveRecordStale(loaded, rec) == rec

\* line 340: stream.ok().flatten(): an error of load_stream counts as no record
ResolveRecord(loaded, rec) == IF loaded THEN rec ELSE NoRecord

\* a save_event that does not look at is_gensis
RejectUnknownNever(e) == FALSE

\* line 348: without a record, only a genesis commit goes on
RejectUnknown(e) == ~IsGenesis(e)

\* line 362: commits.iter().any(|ele| ele.cid == event.cid)
IsDuplicate(commits, e) == e \in Range(commits)

\* a save_event without the linkage check
MissingPrevNever(commits, e) == FALSE

\* lines 366-370: a declared prev must be the address of a loaded commit
MissingPrev(commits, e) ==
    Events[e].prev # "-" /\ Events[e].prev \notin Range(commits)

\* a save_event that drops the error of verify_signature
VerifyFailedIgnored(e, model, t) == FALSE

\* line 379: event.verify_signature(opts)?
VerifyFailed(e, model, t) == ~VerifyError(e, model, t).ok

\* a record that keeps the tip it was loaded with
UpdatedStreamKeepTip(stream, state, e) ==
    [present |-> TRUE,
     model |-> state.model,
     account |-> state.controllers[1],
     tip |-> stream.tip,
     content |-> state.content]

\* lines 381-387: the record save_event persists
UpdatedStream(stream, state, e) ==
    [present |-> TRUE,
     model |-> state.model,
     account |-> state.controllers[1],
     tip |-> e,
     content |-> state.content]

\* line 355: Stream::new(dapp_id, stream_id.type, event, None)
NewStream(e) ==
    [present |-> TRUE, model |-> "-", account |-> "-", tip |-> e,
     content |-> <<>>]

\* a save_event that drops the error of save_stream
SaveStreamFailedIgnored(saved) == FALSE

\* line 389: self.stream_store.save_stream(&stream).await?
SaveStreamFailed(saved) == ~saved

\* Cached::request_anchor (cache.rs 94-111)
AnchorTask(s, e) == [kind |-> "RequestAnchor", stream |-> s, commit |-> e]

\* a request_anchor that does not look at the kind of the commit
IsSignedCommitAlways(e) == TRUE

\* line 100: if let EventValue::Signed(_) = &event.value
IsSignedCommit(e) == Events[e].kind = "Signed"

RequestAnchorQueue(q, s, e, inserted) ==
    IF IsSignedCommit(e) THEN InsertTask(q, AnchorTask(s, e), inserted)
    ELSE q

\* a request_anchor that returns the error of insert_task
RequestAnchorResultPropagated(inserted) ==
    IF inserted THEN Ok("unit") ELSE Err("insert_task")

\* lines 106-110: the error of insert_task is logged; Ok(())
RequestAnchorResult(inserted) == Ok("unit")

\* line 355: the error of Stream::new(..)?
NewStreamFailed == Err("Stream::new")

\* lines 363, 372: stream.state(commits).await, the fold or its error
StreamStateResult(commits, folded) ==
    IF folded THEN Ok(StreamStateOf(commits)) ELSE Err("Stream::state")

\* lines 390-392: the error of upload_event(..).await?
UploadEventFailed == Err("upload_event")

\* the record of a stream whose genesis commit g1 has been accepted
GenesisRecord ==
    UpdatedStream(NewStream("g1"), StreamStateOf(<<"g1">>), "g1")

\* The record store outlives the client: at construction a stream has no
\* record or the record of an accepted genesis commit.
AcceptInit ==
    /\ store \in [Streams -> {NoRecord, GenesisRecord}]
    /\ now = 0
    /\ apc = [p \in AcceptProcs |-> "idle"]
    /\ aarg = [p \in AcceptProcs |-> NoCall]
    /\ astream = [p \in AcceptProcs |-> NoRecord]
    /\ achain = [p \in AcceptProcs |-> <<>>]
    /\ aret = [p \in AcceptProcs |-> NoRet]
    /\ ahist = [p \in AcceptProcs |-> NoHist]
    /\ aprev = [p \in AcceptProcs |-> NoPrev]
    /\ abefore = [p \in AcceptProcs |-> NoRecord]
    /\ acalls = 0

\* no call of the dispatcher yet
NoAnchorCall == [calls |-> 0, op |-> "none", stream |-> "-", ev |-> "-",
                 before |-> <<>>, tried |-> FALSE, inserted |-> FALSE,
                 ret |-> NoRet]

\* Cached::request_anchor and Cached::publish_message have not been called
DispatchInit == ranchor = NoAnchorCall

\* std::collections::HashMap::new()
EmptyMap == [x \in {} |-> "-"]

\* no call of the stream state cache yet
NoLoad == [op |-> "none", id |-> "-", tip |-> -1, hit |-> FALSE,
           inner |-> NoRet, ret |-> NoRet, prevId |-> "-", prevRet |-> NoRet]

\* CachedStreamLoader::new(loader)
LoaderInit ==
    /\ scache = EmptyMap
    /\ sremote = [s \in Streams |-> 0]
    /\ slast = NoLoad

\* no load_files call yet
NoFiles == [model |-> "-"]

FilesInit ==
    /\ fpc = "idle"
    /\ fcall = NoFiles
    /\ ffiles = <<>>
    /\ fret = NoRet

Init == CacheInit /\ AcceptInit /\ DispatchInit /\ LoaderInit /\ FilesInit

\* the content cache and its callers, apart from commit acceptance
CacheSpecInit == Init /\ store = [s \in Streams |-> NoRecord]

CacheSpec == CacheSpecInit /\ [][CacheNext]_vars

\* the call ends with result r
Finish(p, r) ==
    /\ apc' = [apc EXCEPT ![p] = "done"]
    /\ aret' = [aret EXCEPT ![p] = r]

\* save_event(dapp_id, stream_id, event) is called
AcceptCall(p, s, e) ==
    /\ apc[p] \in {"idle", "done"}
    /\ acalls < MaxAcceptCalls
    /\ acalls' = acalls + 1
    /\ apc' = [apc EXCEPT ![p] = "get_ceramic"]
    /\ aarg' = [aarg EXCEPT ![p] = [stream |-> s, ev |-> e]]
    /\ aprev' = [aprev EXCEPT ![p] = [call |-> aarg[p], ret |-> aret[p],
                                      persisted |-> ahist[p].persisted,
                                      extends |-> ahist[p].extends]]
    /\ abefore' = [abefore EXCEPT ![p] = store[s]]
    /\ astream' = [astream EXCEPT ![p] = NoRecord]
    /\ achain' = [achain EXCEPT ![p] = <<>>]
    /\ aret' = [aret EXCEPT ![p] = NoRet]
    /\ ahist' = [ahist EXCEPT ![p] = NoHist]
    /\ UNCHANGED <<store, now, cache, lock, queue, lastOp, evicted, useOrder>>

\* line 335: dapp::get_dapp_ceramic(dapp_id).await?, then the match (336)
AcceptGetCeramic(p) ==
    /\ apc[p] = "get_ceramic"
    /\ \E found \in BOOLEAN :
          /\ ahist' = [ahist EXCEPT ![p].ceramic = IF found THEN "ok" ELSE "failed"]
          /\ IF ~found THEN Finish(p, Err("get_dapp_ceramic"))
             ELSE IF RejectAnchor(aarg[p].ev) THEN Finish(p, AnchorNotSupported)
             ELSE apc' = [apc EXCEPT ![p] = "load_stream"] /\ UNCHANGED aret
    /\ UNCHANGED <<store, now, aarg, astream, achain, aprev, abefore, acalls,
                   cache, lock, queue, lastOp, evicted, useOrder>>

\* lines 339-359: stream_store.load_stream, which may fail; without a record
\* a genesis commit makes the stream with Stream::new(..)?, which may fail
AcceptLoadStream(p) ==
    /\ apc[p] = "load_stream"
    /\ \E loaded \in BOOLEAN :
          LET rec == ResolveRecord(loaded, store[aarg[p].stream])
              read == IF ~loaded THEN "failed"
                      ELSE IF rec.present THEN "found" ELSE "absent"
          IN IF rec.present
             THEN /\ ahist' = [ahist EXCEPT ![p].read = read]
                  /\ astream' = [astream EXCEPT ![p] = rec]
                  /\ apc' = [apc EXCEPT ![p] = "load_events"]
                  /\ UNCHANGED aret
             ELSE IF RejectUnknown(aarg[p].ev)
             THEN /\ ahist' = [ahist EXCEPT ![p].read = read]
                  /\ Finish(p, UnknownStream)
                  /\ UNCHANGED astream
             ELSE \E created \in BOOLEAN :
                     /\ ahist' = [ahist EXCEPT
                                     ![p].read = read,
                                     ![p].created = IF created THEN "ok"
                                                    ELSE "failed"]
                     /\ IF created
                        THEN /\ astream' = [astream EXCEPT ![p] =
                                               NewStream(aarg[p].ev)]
                             /\ apc' = [apc EXCEPT ![p] = "check"]
                             /\ UNCHANGED aret
                        ELSE /\ Finish(p, NewStreamFailed)
                             /\ UNCHANGED astream
    /\ UNCHANGED <<store, now, aarg, achain, aprev, abefore, acalls,
                   cache, lock, queue, lastOp, evicted, useOrder>>

\* lines 343-345: operator.load_events(ceramic, stream_id, Some(stream.tip))?
AcceptLoadEvents(p) ==
    /\ apc[p] = "load_events"
    /\ \E loaded \in BOOLEAN :
          /\ ahist' = [ahist EXCEPT ![p].loaded = IF loaded THEN "ok" ELSE "failed"]
          /\ IF loaded
             THEN /\ achain' = [achain EXCEPT ![p] = LoadEvents(astream[p].tip)]
                  /\ apc' = [apc EXCEPT ![p] = "check"]
                  /\ UNCHANGED aret
             ELSE /\ Finish(p, Err("load_events"))
                  /\ UNCHANGED achain
    /\ UNCHANGED <<store, now, aarg, astream, aprev, abefore, acalls,
                   cache, lock, queue, lastOp, evicted, useOrder>>

\* lines 361-372: the duplicate check, which returns stream.state(commits);
\* the linkage check; the fold of the commits with the new one,
\* stream.state(commits).await?, which may fail
AcceptCheck(p) ==
    /\ apc[p] = "check"
    /\ LET e == aarg[p].ev
           commits == achain[p]
       IN IF IsDuplicate(commits, e)
          THEN \E folded \in BOOLEAN :
                  /\ ahist' = [ahist EXCEPT ![p].folded =
                                   IF folded THEN "ok" ELSE "failed"]
                  /\ Finish(p, StreamStateResult(commits, folded))
          ELSE IF ~Events[e].prevOk
          THEN /\ Finish(p, Err("prev: decode"))
               /\ UNCHANGED ahist
          ELSE IF MissingPrev(commits, e)
          THEN /\ Finish(p, MissingPredecessor)
               /\ UNCHANGED ahist
          ELSE \E folded \in BOOLEAN :
                  /\ ahist' = [ahist EXCEPT ![p].folded =
                                   IF folded THEN "ok" ELSE "failed"]
                  /\ IF folded
                     THEN apc' = [apc EXCEPT ![p] = "verify"] /\ UNCHANGED aret
                     ELSE Finish(p, StreamStateResult(Append(commits, e), folded))
    /\ UNCHANGED <<store, now, aarg, astream, achain, aprev, abefore, acalls,
                   cache, lock, queue, lastOp, evicted, useOrder>>

\* lines 374-387: the model of the state, the verification of the signature
\* at Utc::now(), and the new record
AcceptVerify(p) ==
    /\ apc[p] = "verify"
    /\ LET e == aarg[p].ev
           commits == achain[p]
           state == StreamStateOf(Append(commits, e))
       IN IF state.model = "-"
          THEN /\ Finish(p, Err("must_model"))
               /\ UNCHANGED <<astream, ahist>>
          ELSE /\ ahist' = [ahist EXCEPT
                               ![p].verified = TRUE,
                               ![p].checkedAt = now,
                               ![p].extends =
                                   IF commits = <<>> THEN Events[e].prev = "-"
                                   ELSE Events[e].prev = Last(commits)]
               /\ IF VerifyFailed(e, state.model, now)
                  THEN /\ Finish(p, VerifyError(e, state.model, now))
                       /\ UNCHANGED astream
                  ELSE /\ astream' = [astream EXCEPT ![p] =
                                         UpdatedStream(astream[p], state, e)]
                       /\ apc' = [apc EXCEPT ![p] = "save_stream"]
                       /\ UNCHANGED aret
    /\ UNCHANGED <<store, now, aarg, achain, aprev, abefore, acalls,
                   cache, lock, queue, lastOp, evicted, useOrder>>

\* line 389: stream_store.save_stream(&stream).await?
AcceptSaveStream(p) ==
    /\ apc[p] = "save_stream"
    /\ \E saved \in BOOLEAN :
          /\ ahist' = [ahist EXCEPT ![p].saves = @ + 1,
                                    ![p].persisted = IF saved THEN @ + 1 ELSE @]
          /\ store' = IF saved THEN [store EXCEPT ![aarg[p].stream] = astream[p]]
                       ELSE store
          /\ IF SaveStreamFailed(saved)
             THEN Finish(p, Err("save_stream"))
             ELSE /\ apc' = [apc EXCEPT ![p] = "upload_event"]
                  /\ UNCHANGED aret
    /\ UNCHANGED <<now, aarg, astream, achain, aprev, abefore, acalls,
                   cache, lock, queue, lastOp, evicted, useOrder>>

\* lines 390-392: operator.upload_event(ceramic, stream_id, event).await?,
\* which fails on its own or goes on to block_upload
AcceptUploadEvent(p) ==
    /\ apc[p] = "upload_event"
    /\ \E started \in BOOLEAN :
          /\ ahist' = [ahist EXCEPT ![p].uploaded =
                           IF started THEN "ok" ELSE "failed"]
          /\ IF started
             THEN apc' = [apc EXCEPT ![p] = "bu_lock"] /\ UNCHANGED aret
             ELSE Finish(p, UploadEventFailed)
    /\ UNCHANGED <<store, now, aarg, astream, achain, aprev, abefore, acalls,
                   cache, lock, queue, lastOp, evicted, useOrder>>

\* cache.rs line 69, called by upload_event: self.cache.lock().await
AcceptBlockUploadLock(p) ==
    /\ apc[p] = "bu_lock"
    /\ lock = "free"
    /\ lock' = p
    /\ apc' = [apc EXCEPT ![p] = "bu_put"]
    /\ UNCHANGED <<store, now, aarg, astream, achain, aret, ahist, aprev,
                   abefore, acalls, cache, queue, lastOp, evicted, useOrder>>

\* cache.rs line 69: .put(cid, block.clone()) of the commit's bytes
AcceptBlockUploadPut(p) ==
    /\ apc[p] = "bu_put"
    /\ lock = p
    /\ LET e == aarg[p].ev
       IN /\ cache' = LruPut(cache, e, Events[e].bytes)
          /\ useOrder' = Used(useOrder, e)
          /\ lastOp' = [op |-> "put", cid |-> e, data |-> Events[e].bytes,
                        afterPut |-> FALSE]
          /\ evicted' = Evicted(cache, cache', e, evicted)
    /\ lock' = "free"
    /\ apc' = [apc EXCEPT ![p] = "bu_enqueue"]
    /\ UNCHANGED <<store, now, aarg, astream, achain, aret, ahist, aprev,
                   abefore, acalls, queue>>

\* cache.rs lines 70-74: insert_task of the BlockUpload task, Ok(()); an
\* error of block_upload would end upload_event
AcceptBlockUploadEnqueue(p) ==
    /\ apc[p] = "bu_enqueue"
    /\ \E inserted \in BOOLEAN :
          LET e == aarg[p].ev
              r == BlockUploadResult(inserted)
          IN /\ queue' = InsertTask(queue, BlockUploadTask(e, Events[e].bytes),
                                    inserted)
             /\ ahist' = [ahist EXCEPT
                             ![p].inserts = @ + 1,
                             ![p].dropped = @ + (IF inserted THEN 0 ELSE 1)]
             /\ IF r.ok
                THEN apc' = [apc EXCEPT ![p] = "request_anchor"] /\ UNCHANGED aret
                ELSE Finish(p, r)
    /\ UNCHANGED <<store, now, aarg, astream, achain, aprev, abefore, acalls,
                   cache, lock, lastOp, evicted, useOrder>>

\* cache.rs lines 94-111, called by upload_event: request_anchor; then
\* client.rs line 394: Ok(state)
AcceptRequestAnchor(p) ==
    /\ apc[p] = "request_anchor"
    /\ \E inserted \in BOOLEAN :
          LET e == aarg[p].ev
              r == RequestAnchorResult(inserted)
          IN /\ queue' = RequestAnchorQueue(queue, aarg[p].stream, e, inserted)
             /\ ahist' = [ahist EXCEPT
                             ![p].inserts = @ + 1,
                             ![p].dropped = @ + (IF inserted THEN 0 ELSE 1)]
             /\ IF r.ok
                THEN Finish(p, Ok(StreamStateOf(Append(achain[p], e))))
                ELSE Finish(p, r)
    /\ UNCHANGED <<store, now, aarg, astream, achain, aprev, abefore, acalls,
                   cache, lock, lastOp, evicted, useOrder>>

\* time passes
Tick ==
    /\ now < MaxTime
    /\ now' = now + 1
    /\ UNCHANGED <<store, apc, aarg, astream, achain, aret, ahist, aprev, abefore, acalls,
                   cache, lock, queue, lastOp, evicted, useOrder>>

AcceptNext ==
    \/ \E p \in AcceptProcs, s \in Streams, e \in EventIds :
          AcceptCall(p, s, e) /\ UNCHANGED <<callVars, restVars>>
    \/ \E p \in AcceptProcs : AcceptGetCeramic(p) /\ UNCHANGED <<callVars, restVars>>
    \/ \E p \in AcceptProcs : AcceptLoadStream(p) /\ UNCHANGED <<callVars, restVars>>
    \/ \E p \in AcceptProcs : AcceptLoadEvents(p) /\ UNCHANGED <<callVars, restVars>>
    \/ \E p \in AcceptProcs : AcceptCheck(p) /\ UNCHANGED <<callVars, restVars>>
    \/ \E p \in AcceptProcs : AcceptVerify(p) /\ UNCHANGED <<callVars, restVars>>
    \/ \E p \in AcceptProcs : AcceptSaveStream(p) /\ UNCHANGED <<callVars, restVars>>
    \/ \E p \in AcceptProcs : AcceptUploadEvent(p) /\ UNCHANGED <<callVars, restVars>>
    \/ \E p \in AcceptProcs : AcceptBlockUploadLock(p) /\ UNCHANGED <<callVars, restVars>>
    \/ \E p \in AcceptProcs : AcceptBlockUploadPut(p) /\ UNCHANGED <<callVars, restVars>>
    \/ \E p \in AcceptProcs : AcceptBlockUploadEnqueue(p) /\ UNCHANGED <<callVars, restVars>>
    \/ \E p \in AcceptProcs : AcceptRequestAnchor(p) /\ UNCHANGED <<callVars, restVars>>
    \/ Tick /\ UNCHANGED <<callVars, restVars>>

\* save_event called by concurrent callers
AcceptSpec == Init /\ [][AcceptNext]_vars

\* the one caller of the sequential specification
SeqProcs == {"a1"}

\* save_event called by one caller, one call after the other
AcceptSeqNext ==
    \/ \E p \in SeqProcs, s \in Streams, e \in EventIds :
          AcceptCall(p, s, e) /\ UNCHANGED <<callVars, restVars>>
    \/ \E p \in SeqProcs : AcceptGetCeramic(p) /\ UNCHANGED <<callVars, restVars>>
    \/ \E p \in SeqProcs : AcceptLoadStream(p) /\ UNCHANGED <<callVars, restVars>>
    \/ \E p \in SeqProcs : AcceptLoadEvents(p) /\ UNCHANGED <<callVars, restVars>>
    \/ \E p \in SeqProcs : AcceptCheck(p) /\ UNCHANGED <<callVars, restVars>>
    \/ \E p \in SeqProcs : AcceptVerify(p) /\ UNCHANGED <<callVars, restVars>>
    \/ \E p \in SeqProcs : AcceptSaveStream(p) /\ UNCHANGED <<callVars, restVars>>
    \/ \E p \in SeqProcs : AcceptUploadEvent(p) /\ UNCHANGED <<callVars, restVars>>
    \/ \E p \in SeqProcs : AcceptBlockUploadLock(p) /\ UNCHANGED <<callVars, restVars>>
    \/ \E p \in SeqProcs : AcceptBlockUploadPut(p) /\ UNCHANGED <<callVars, restVars>>
    \/ \E p \in SeqProcs : AcceptBlockUploadEnqueue(p) /\ UNCHANGED <<callVars, restVars>>
    \/ \E p \in SeqProcs : AcceptRequestAnchor(p) /\ UNCHANGED <<callVars, restVars>>
    \/ Tick /\ UNCHANGED <<callVars, restVars>>

AcceptSeqSpec == Init /\ [][AcceptSeqNext]_vars

\* the stream the racing callers submit to
RaceStreams == {"S1"}

\* the other stream has no record
AcceptRaceInit == Init /\ store["S2"] = NoRecord

\* save_event called by concurrent callers for one stream, within one tick
\* of the clock
AcceptRaceNext ==
    \/ \E p \in AcceptProcs, s \in RaceStreams, e \in EventIds :
          AcceptCall(p, s, e) /\ UNCHANGED <<callVars, restVars>>
    \/ \E p \in AcceptProcs : AcceptGetCeramic(p) /\ UNCHANGED <<callVars, restVars>>
    \/ \E p \in AcceptProcs : AcceptLoadStream(p) /\ UNCHANGED <<callVars, restVars>>
    \/ \E p \in AcceptProcs : AcceptLoadEvents(p) /\ UNCHANGED <<callVars, restVars>>
    \/ \E p \in AcceptProcs : AcceptCheck(p) /\ UNCHANGED <<callVars, restVars>>
    \/ \E p \in AcceptProcs : AcceptVerify(p) /\ UNCHANGED <<callVars, restVars>>
    \/ \E p \in AcceptProcs : AcceptSaveStream(p) /\ UNCHANGED <<callVars, restVars>>
    \/ \E p \in AcceptProcs : AcceptUploadEvent(p) /\ UNCHANGED <<callVars, restVars>>
    \/ \E p \in AcceptProcs : AcceptBlockUploadLock(p) /\ UNCHANGED <<callVars, restVars>>
    \/ \E p \in AcceptProcs : AcceptBlockUploadPut(p) /\ UNCHANGED <<callVars, restVars>>
    \/ \E p \in AcceptProcs : AcceptBlockUploadEnqueue(p) /\ UNCHANGED <<callVars, restVars>>
    \/ \E p \in AcceptProcs : AcceptRequestAnchor(p) /\ UNCHANGED <<callVars, restVars>>

AcceptRaceSpec == AcceptRaceInit /\ [][AcceptRaceNext]_vars

(***************************************************************************)
(* The dispatcher called on its own: Cached::request_anchor and            *)
(* Cached::publish_message (ceramic/src/kubo/cache.rs)                     *)
(***************************************************************************)
\* number of dispatcher calls in one behaviour
MaxAnchorCalls == 2

\* the topics and the messages the callers publish
Topics == {"t1", "t2"}

Messages == {"m1"}

\* lines 81-84: the task of publish_message
PublishTask(topic, msg) == [kind |-> "PublishMessage", topic |-> topic, msg |-> msg]

\* lines 85-88: the error of insert_task is logged; Ok(())
PublishMessageResult(inserted) == Ok("unit")

\* lines 94-111: the whole call; the queue lock is held for insert_task.
\* ranchor records the call: the queue before it, whether insert_task was
\* called and whether it succeeded, and the result.
RequestAnchor(s, e) ==
    /\ ranchor.calls < MaxAnchorCalls
    /\ \E inserted \in BOOLEAN :
          /\ queue' = RequestAnchorQueue(queue, s, e, inserted)
          /\ ranchor' = [calls |-> ranchor.calls + 1, op |-> "request_anchor",
                         stream |-> s, ev |-> e,
                         before |-> queue, tried |-> IsSignedCommit(e),
                         inserted |-> inserted,
                         ret |-> RequestAnchorResult(inserted)]
    /\ UNCHANGED <<cache, lastOp, evicted, useOrder, callerVars, acceptVars,
                   loaderVars, fileVars>>

\* lines 80-89: the whole call; the queue lock is held for insert_task
PublishMessage(topic, msg) ==
    /\ ranchor.calls < MaxAnchorCalls
    /\ \E inserted \in BOOLEAN :
          /\ queue' = InsertTask(queue, PublishTask(topic, msg), inserted)
          /\ ranchor' = [calls |-> ranchor.calls + 1, op |-> "publish_message",
                         stream |-> topic, ev |-> msg,
                         before |-> queue, tried |-> TRUE,
                         inserted |-> inserted,
                         ret |-> PublishMessageResult(inserted)]
    /\ UNCHANGED <<cache, lastOp, evicted, useOrder, callerVars, acceptVars,
                   loaderVars, fileVars>>

DispatchNext ==
    \/ \E s \in Streams, e \in EventIds : RequestAnchor(s, e)
    \/ \E topic \in Topics, msg \in Messages : PublishMessage(topic, msg)

\* the dispatcher's request_anchor, called with any commit, and its
\* publish_message
DispatchSpec == CacheSpecInit /\ [][DispatchNext]_vars

(***************************************************************************)
(* The stream state cache: CachedStreamLoader (ceramic/src/stream/         *)
(* operator.rs).  The inner loader serves, for every stream, the state of  *)
(* its latest version or of the version a tip names, or fails.             *)
(***************************************************************************)
\* the latest version a stream reaches on the network
MaxVersion == 2

\* tip: None
NoTip == -1

\* the state the inner loader derives for stream s at tip
InnerState(s, tip) ==
    [id |-> s, version |-> IF tip = NoTip THEN sremote[s] ELSE tip]

\* the tips a caller can name for stream s
Tips(s) == {NoTip} \cup (0..sremote[s])

\* HashMap::insert
MapInsert(c, k, v) == [x \in (DOMAIN c) \cup {k} |-> IF x = k THEN v ELSE c[x]]

\* a load_stream_state that stores the state it loaded
CacheAfterMissInserted(c, s, r) == IF r.ok THEN MapInsert(c, s, r.val) ELSE c

\* line 88: `// TODO: insert data into cache`: the map is left as it is
CacheAfterMiss(c, s, r) == c

\* the call: what it was, what the inner loader returned, what it returned
Loaded(op, s, tip, hit, inner, ret) ==
    [op |-> op, id |-> s, tip |-> tip, hit |-> hit, inner |-> inner,
     ret |-> ret, prevId |-> slast.id, prevRet |-> slast.ret]

\* the stream gets a new commit on the network
RemoteUpdate(s) ==
    /\ sremote[s] < MaxVersion
    /\ sremote' = [sremote EXCEPT ![s] = @ + 1]
    /\ UNCHANGED <<scache, slast>>

\* lines 74-90: CachedStreamLoader::load_stream_state
LoadStreamState(s, tip) ==
    IF s \in DOMAIN scache
    THEN /\ slast' = Loaded("load_stream_state", s, tip, TRUE, NoRet,
                            Ok(scache[s]))
         /\ UNCHANGED <<scache, sremote>>
    ELSE \E inner \in {Ok(InnerState(s, tip)), Err("load_stream_state")} :
            /\ slast' = Loaded("load_stream_state", s, tip, FALSE, inner, inner)
            /\ scache' = CacheAfterMiss(scache, s, inner)
            /\ UNCHANGED sremote

\* lines 62-69: CachedStreamLoader::load_events
LoadEventsThrough(s, tip) ==
    \E inner \in {Ok([id |-> s, commits |-> InnerState(s, tip).version + 1]),
                   Err("load_events")} :
        /\ slast' = Loaded("load_events", s, tip, FALSE, inner, inner)
        /\ UNCHANGED <<scache, sremote>>

\* lines 95-104: CachedStreamLoader::load_stream_states
LoadStreamStates ==
    \E inner \in {Ok([s \in Streams |-> InnerState(s, NoTip)]),
                   Err("load_stream_states")} :
        /\ slast' = Loaded("load_stream_states", "-", NoTip, FALSE, inner, inner)
        /\ UNCHANGED <<scache, sremote>>

LoaderNext ==
    \/ \E s \in Streams : RemoteUpdate(s)
          /\ UNCHANGED <<cacheVars, acceptVars, ranchor, fileVars>>
    \/ \E s \in Streams : \E tip \in Tips(s) : LoadStreamState(s, tip)
          /\ UNCHANGED <<cacheVars, acceptVars, ranchor, fileVars>>
    \/ \E s \in Streams : \E tip \in Tips(s) : LoadEventsThrough(s, tip)
          /\ UNCHANGED <<cacheVars, acceptVars, ranchor, fileVars>>
    \/ LoadStreamStates
          /\ UNCHANGED <<cacheVars, acceptVars, ranchor, fileVars>>

LoaderSpec == CacheSpecInit /\ [][LoaderNext]_vars

(***************************************************************************)
(* Batch resolution: Client::load_files (file-system/src/file/client.rs).  *)
(* A stream state of the batch is a record [view, content]; its stream     *)
(* identifier is its position in the batch.  view tells whether a file     *)
(* view can be built from the state (StreamFile::new_with_file and         *)
(* new_with_content succeed); id, where stream_id() is called on the       *)
(* state, tells whether it succeeds: a view is built from a state that has *)
(* an identifier.                                                          *)
(***************************************************************************)
\* the largest number of stream states the loader returns for a model
MaxBatch == 2

\* the batches a loader returns: a Vec of at most MaxBatch states
BatchSizes == 0..MaxBatch

\* the Signal values folders declare and callers require
Signals == {"a", "b"}

\* the options of a call: LoadFilesOption::Signal(v) or LoadFilesOption::None
OptionLists ==
    {<<>>, <<"None">>, <<"a">>, <<"b">>, <<"a", "b">>, <<"a", "None">>,
     <<"b", "None", "a">>}

\* the content of an indexFolder stream: junk that does not decode, or a
\* folder whose options() fails ("bad"), holds no options ("none") or holds
\* a signal set, and whose access_control() succeeds or fails
Junk == [junk |-> TRUE]

BadOptions == [kind |-> "bad", signals |-> {}]

NoOptions == [kind |-> "none", signals |-> {}]

FolderOptions ==
    {BadOptions, NoOptions} \cup [kind : {"some"}, signals : SUBSET Signals]

FolderContents == {Junk} \cup [options : FolderOptions, acl : BOOLEAN]

FolderStates == [view : BOOLEAN, content : FolderContents]

\* the streams an index file can name as its content
ContentIds == {"x1", "x2"}

\* the content of an indexFile stream: junk, or an index file whose
\* content_id parses as a stream identifier or does not ("bad")
IndexFileContents == {Junk} \cup [content_id : {"bad"} \cup ContentIds]

IndexFileStates == [view : BOOLEAN, content : IndexFileContents]

\* what happens when an item loads its content stream: the load fails, the
\* state does not attach to the file (write_content fails), or it loads and
\* attaches
ContentOutcomes == {"loadfail", "attachfail", "ok"}

\* the content of a plain stream
Data == [data |-> "data"]

PlainStates ==
    {st \in [id : BOOLEAN, view : BOOLEAN, content : {Data}] : st.view => st.id}

\* the stream identifier of the n-th state of the batch
StateId(n) == <<"s1", "s2", "s3", "s4">>[n]

\* the indexFile streams scanned by the reverse join: content_id "s0" names
\* no stream of the batch
ScannedContents ==
    {Junk} \cup [content_id : {"s0"} \cup {StateId(n) : n \in 1..MaxBatch}]

ScannedStates == [id : BOOLEAN, content : ScannedContents]

\* the calls of load_files: the model's name, what lines 171-178 and 272-277
\* run into, the states of the model's streams, the options, what the load
\* of the content stream gives for every item, and the scanned index files
FileCall(model, resolve, states, options, contents, index) ==
    [model |-> model, resolve |-> resolve, states |-> states,
     options |-> options, contents |-> contents, index |-> index]

NoContents == <<>>

ModelNames == {"indexFile", "actionFile", "indexFolder", "contentFolder",
               "plain"}

(***************************************************************************)
(* StreamFile                                                              *)
(***************************************************************************)
\* a half of the view that is not there
NoValue == [none |-> TRUE]

EmptyFile == [file_model_id |-> "-", file_id |-> "-", file |-> NoValue,
              content_id |-> "-", content |-> NoValue, status |-> "Ok"]

\* StreamFile::new_with_file(state): the file half is the stream itself
NewWithFile(n, state) ==
    [EmptyFile EXCEPT !.file_id = StateId(n), !.file = state.content]

\* StreamFile::new_with_content(state): the content half is the stream itself
NewWithContent(n, state) ==
    [EmptyFile EXCEPT !.content_id = StateId(n), !.content = state.content]

\* StreamFile::write_content(state)
WriteContent(file, id) == [file EXCEPT !.content_id = id, !.content = Data]

\* StreamFile::write_status(status, desc)
WriteStatus(file, status) == [file EXCEPT !.status = status]

(***************************************************************************)
(* lines 181-202: the indexFile branch                                     *)
(***************************************************************************)
\* lines 189-192: load_stream_state(&ceramic, stream_id, None).await?
ContentLoadFailed(outcome) == outcome = "loadfail"

\* lines 184-198: one state of the batch, outcome what its load of the
\* content stream gives
IndexFileItem(id, state, outcome) ==
    IF state.content = Junk THEN Err("decode index file")
    ELSE IF ~state.view THEN Err("new_with_file")
    ELSE LET cid == state.content.content_id
             file == [NewWithFile(id, state) EXCEPT !.content_id = cid]
         IN IF cid = "bad" THEN Ok(file)
            ELSE IF ContentLoadFailed(outcome)
            THEN Err("load_stream_state")
            ELSE IF outcome # "ok"
            THEN Ok(WriteStatus(file, "BrokenContent"))
            ELSE Ok(WriteContent(file, cid))

(***************************************************************************)
(* lines 203-206, 267-270: the actionFile and contentFolder branches       *)
(***************************************************************************)
\* map(StreamFile::new_with_file / new_with_content).collect()
RECURSIVE CollectViews(_, _, _)
CollectViews(states, half, n) ==
    IF n = 0 THEN Ok(<<>>)
    ELSE LET before == CollectViews(states, half, n - 1)
         IN IF ~before.ok THEN before
            ELSE IF ~states[n].view THEN Err("new_with_" \o half)
            ELSE Ok(Append(before.val,
                           IF half = "file" THEN NewWithFile(n, states[n])
                           ELSE NewWithContent(n, states[n])))

(***************************************************************************)
(* lines 207-266: the indexFolder branch                                   *)
(***************************************************************************)
\* lines 245-251: the signals the options require
RequiredSignals(options) ==
    {options[i] : i \in {j \in 1..Len(options) : options[j] # "None"}}

\* lines 253-257: every required signal is in the folder's options; a folder
\* without options holds no signal
AllSignalsPresent(required, declared) ==
    \A sig \in required :
        declared.kind = "some" /\ sig \in declared.signals

\* lines 210-263: the closure of filter_map: <<>> for None, <<file>> for
\* Some(file)
FolderItem(id, state, options) ==
    IF ~state.view THEN <<>>
    ELSE LET file == NewWithContent(id, state)
         IN IF state.content = Junk
            THEN <<WriteStatus(file, "BrokenFolder")>>
            ELSE IF state.content.options.kind = "bad"
            THEN <<WriteStatus(file, "BrokenFolder")>>
            ELSE IF ~state.content.acl
            THEN <<WriteStatus(file, "BrokenFolder")>>
            ELSE IF ~AllSignalsPresent(RequiredSignals(options),
                                       state.content.options)
            THEN <<>>
            ELSE <<file>>

RECURSIVE FolderBatch(_, _, _)
FolderBatch(states, options, n) ==
    IF n = 0 THEN <<>>
    ELSE FolderBatch(states, options, n - 1)
            \o FolderItem(n, states[n], options)

(***************************************************************************)
(* lines 271-312: the default branch, the reverse join                     *)
(***************************************************************************)
\* the identifier of the j-th scanned index file
IndexId(j) == <<"f1", "f2", "f3", "f4">>[j]

\* line 272: the identifier of the dapp's indexFile model
ModelIndexFile == "m_indexFile"

\* lines 279-284: the map from content stream identifier to its view
RECURSIVE ContentMap(_, _)
ContentMap(states, n) ==
    IF n = 0 THEN Ok(EmptyMap)
    ELSE LET before == ContentMap(states, n - 1)
         IN IF ~before.ok THEN before
            ELSE IF ~states[n].id THEN Err("stream_id")
            ELSE IF ~states[n].view THEN Err("new_with_content")
            ELSE Ok(MapInsert(before.val, StateId(n),
                              NewWithContent(n, states[n])))

\* lines 290-292: the index file becomes the file half of the entry
PatchFile(file, j, node) ==
    [file EXCEPT !.file_model_id = ModelIndexFile, !.file_id = IndexId(j),
                 !.file = node.content]

\* lines 286-295: the scan of the index files; node.stream_id()? may fail
RECURSIVE ScanIndex(_, _, _)
ScanIndex(map, index, j) ==
    IF j = 0 THEN Ok(map)
    ELSE LET before == ScanIndex(map, index, j - 1)
             node == index[j]
         IN IF ~before.ok THEN before
            ELSE IF node.content = Junk THEN before
            ELSE IF node.content.content_id \notin DOMAIN before.val THEN before
            ELSE IF ~node.id THEN Err("stream_id")
            ELSE Ok([before.val EXCEPT ![node.content.content_id] =
                        PatchFile(@, j, node)])

\* a result that leaves the entries without file as they are
DowngradeNever(file) == file

\* lines 300-307: an entry without file_id becomes a NakedStream
Downgrade(file) ==
    IF file.file_id = "-" /\ file.content_id # "-"
    THEN WriteStatus(file, "NakedStream")
    ELSE file

\* the orders in which a HashMap with key set K is iterated
Orders(K) ==
    {f \in [1..Cardinality(K) -> K] : \A k \in K : \E i \in DOMAIN f : f[i] = k}

(***************************************************************************)
(* The call, step by step                                                  *)
(***************************************************************************)
\* load_files is called once: the calls do not depend on one another
LoadFilesCall(c) ==
    /\ fpc = "idle"
    /\ fpc' = "resolve"
    /\ fcall' = c
    /\ ffiles' = <<>>
    /\ fret' = NoRet

\* lines 171-178: the model, its ceramic endpoint, the states of its streams
LoadFilesResolve ==
    /\ fpc = "resolve"
    /\ IF fcall.resolve \in {"get_model", "ceramic", "load_stream_states"}
       THEN fpc' = "done" /\ fret' = Err(fcall.resolve)
       ELSE fpc' = "match" /\ UNCHANGED fret
    /\ UNCHANGED <<fcall, ffiles>>

\* lines 182-201: one turn of the loop, which awaits the load of the item's
\* content stream; the first error ends the call; after the last item
\* Ok(files)
LoadFilesIndexFile ==
    /\ fpc = "match" /\ fcall.model = "indexFile"
    /\ LET n == Len(ffiles) + 1
       IN IF n > Len(fcall.states)
          THEN /\ fret' = Ok(ffiles)
               /\ fpc' = "done"
               /\ UNCHANGED ffiles
          ELSE LET item == IndexFileItem(n, fcall.states[n], fcall.contents[n])
               IN IF item.ok
                  THEN /\ ffiles' = Append(ffiles, item.val)
                       /\ UNCHANGED <<fpc, fret>>
                  ELSE /\ fret' = item
                       /\ fpc' = "done"
                       /\ UNCHANGED ffiles
    /\ UNCHANGED fcall

LoadFilesActionFile ==
    /\ fpc = "match" /\ fcall.model = "actionFile"
    /\ fret' = CollectViews(fcall.states, "file", Len(fcall.states))
    /\ fpc' = "done"
    /\ UNCHANGED <<fcall, ffiles>>

LoadFilesIndexFolder ==
    /\ fpc = "match" /\ fcall.model = "indexFolder"
    /\ fret' = Ok(FolderBatch(fcall.states, fcall.options, Len(fcall.states)))
    /\ fpc' = "done"
    /\ UNCHANGED <<fcall, ffiles>>

LoadFilesContentFolder ==
    /\ fpc = "match" /\ fcall.model = "contentFolder"
    /\ fret' = CollectViews(fcall.states, "content", Len(fcall.states))
    /\ fpc' = "done"
    /\ UNCHANGED <<fcall, ffiles>>

LoadFilesDefault ==
    /\ fpc = "match" /\ fcall.model = "plain"
    /\ IF fcall.resolve # "ok" THEN fret' = Err(fcall.resolve)
       ELSE LET map == ContentMap(fcall.states, Len(fcall.states))
                scanned == IF map.ok
                           THEN ScanIndex(map.val, fcall.index, Len(fcall.index))
                           ELSE map
            IN IF ~scanned.ok THEN fret' = scanned
               ELSE \E order \in Orders(DOMAIN scanned.val) :
                       fret' = Ok([i \in DOMAIN order |->
                                      Downgrade(scanned.val[order[i]])])
    /\ fpc' = "done"
    /\ UNCHANGED <<fcall, ffiles>>

\* the calls of load_files whose model, ceramic endpoint or stream states
\* cannot be loaded
CallUnresolved ==
    /\ fpc = "idle"
    /\ \E mo \in ModelNames, r \in {"get_model", "ceramic", "load_stream_states"} :
        LoadFilesCall(FileCall(mo, r, <<>>, <<>>, NoContents, <<>>))

CallIndexFile ==
    /\ fpc = "idle"
    /\ \E k \in BatchSizes :
        \E st \in [1..k -> IndexFileStates], co \in [1..k -> ContentOutcomes] :
            LoadFilesCall(FileCall("indexFile", "ok", st, <<>>, co, <<>>))

CallViews ==
    /\ fpc = "idle"
    /\ \E mo \in {"actionFile", "contentFolder"}, k \in BatchSizes :
        \E st \in [1..k -> PlainStates] :
            LoadFilesCall(FileCall(mo, "ok", st, <<>>, NoContents, <<>>))

CallIndexFolder ==
    /\ fpc = "idle"
    /\ \E k \in BatchSizes :
        \E st \in [1..k -> FolderStates], op \in OptionLists :
            LoadFilesCall(FileCall("indexFolder", "ok", st, op, NoContents, <<>>))

\* the calls for a plain model whose indexFile model or index files cannot
\* be loaded (lines 272-277)
CallPlainUnresolved ==
    /\ fpc = "idle"
    /\ \E r \in {"get_file_model", "load_index_files"} :
        LoadFilesCall(FileCall("plain", r, <<>>, <<>>, NoContents, <<>>))

CallPlain ==
    /\ fpc = "idle"
    /\ \E k \in BatchSizes, j \in BatchSizes :
        \E st \in [1..k -> PlainStates], ix \in [1..j -> ScannedStates] :
            LoadFilesCall(FileCall("plain", "ok", st, <<>>, NoContents, ix))

FilesNext ==
    \/ CallUnresolved
          /\ UNCHANGED <<cacheVars, acceptVars, ranchor, loaderVars>>
    \/ CallIndexFile
          /\ UNCHANGED <<cacheVars, acceptVars, ranchor, loaderVars>>
    \/ CallViews
          /\ UNCHANGED <<cacheVars, acceptVars, ranchor, loaderVars>>
    \/ CallIndexFolder
          /\ UNCHANGED <<cacheVars, acceptVars, ranchor, loaderVars>>
    \/ CallPlainUnresolved
          /\ UNCHANGED <<cacheVars, acceptVars, ranchor, loaderVars>>
    \/ CallPlain
          /\ UNCHANGED <<cacheVars, acceptVars, ranchor, loaderVars>>
    \/ LoadFilesResolve
          /\ UNCHANGED <<cacheVars, acceptVars, ranchor, loaderVars>>
    \/ LoadFilesIndexFile
          /\ UNCHANGED <<cacheVars, acceptVars, ranchor, loaderVars>>
    \/ LoadFilesActionFile
          /\ UNCHANGED <<cacheVars, acceptVars, ranchor, loaderVars>>
    \/ LoadFilesIndexFolder
          /\ UNCHANGED <<cacheVars, acceptVars, ranchor, loaderVars>>
    \/ LoadFilesContentFolder
          /\ UNCHANGED <<cacheVars, acceptVars, ranchor, loaderVars>>
    \/ LoadFilesDefault
          /\ UNCHANGED <<cacheVars, acceptVars, ranchor, loaderVars>>

FilesSpec == CacheSpecInit /\ [][FilesNext]_vars

(***************************************************************************)
(* Properties of the content cache                                         *)
(***************************************************************************)
IsLoadCid(p) == carg[p].block = "-" /\ carg[p].cid # "-"

IsBlockUpload(p) == carg[p].block # "-"

\* the lookup of a load_cid call: cache.get under the lock
LookupStep(p) == cpc[p] = "lc_get" /\ cpc'[p] # "lc_get"

\* the entry of the cache that was used longest ago
LeastRecentlyUsed(c, order) ==
    CHOOSE k \in Keys(c) :
        \A j \in Keys(c) :
            (CHOOSE i \in 1..Len(order) : order[i] = j)
                <= (CHOOSE i \in 1..Len(order) : order[i] = k)

\* C1: a load_cid whose lookup is the first operation on the cache after
\* block_upload put bytes b under the same address returns b from the lookup
\* itself: the call ends there, without a remote fetch.
C1_GetAfterPut ==
    [][\A p \in CacheProcs :
          (LookupStep(p) /\ lastOp.op = "put" /\ lastOp.cid = carg[p].cid)
              => /\ cret'[p] = Ok(lastOp.data)
                 /\ cpc'[p] = "done"
                 /\ cfetch'[p] = 0]_vars

C1_Witness ==
    \E p \in CacheProcs :
        /\ cpc[p] = "done"
        /\ IsLoadCid(p)
        /\ lastOp.op = "get" /\ lastOp.afterPut /\ lastOp.cid = carg[p].cid
        /\ cret[p] = Ok("b2")
        /\ cfetch[p] = 0

\* C2: a put of an address that is not in a full cache removes exactly one
\* entry, the one used longest ago (a get that hits and a put are uses), and
\* adds the new one; a load_cid that looks up the evicted address misses, and
\* a call that missed ends having made exactly one remote fetch.
C2_Eviction ==
    [][/\ (Len(cache) = CacheSize /\ Keys(cache') \ Keys(cache) # {})
             => /\ Keys(cache) \ Keys(cache')
                       = {LeastRecentlyUsed(cache, useOrder)}
                /\ Cardinality(Keys(cache') \ Keys(cache)) = 1
                /\ Len(cache') = CacheSize
                /\ evicted' = LeastRecentlyUsed(cache, useOrder)
       /\ \A p \in CacheProcs :
             /\ (LookupStep(p) /\ carg[p].cid = evicted)
                   => cpc'[p] = "lc_fetch" /\ cfetch'[p] = 0
             /\ (cpc[p] \in {"lc_fetch", "lc_put"} /\ cpc'[p] = "done")
                   => cfetch'[p] = 1]_vars

\* three uploads were queued around a get that hit the first address: the
\* third upload evicted the second address, not the first
C2_Witness ==
    /\ Len(queue) = 3
    /\ Len(cache) = CacheSize
    /\ evicted = queue[2].cid
    /\ Keys(cache) = {queue[1].cid, queue[3].cid}
    /\ useOrder = <<queue[3].cid, queue[1].cid, queue[2].cid>>
    /\ lastOp.op = "put"

\* C8: block_upload puts the bytes into the cache whatever happens next, then
\* tries to insert one BlockUpload task; whether or not the insert succeeds
\* the call returns Ok and leaves the cache as it is.
C8_PutSwallowsEnqueueFailure ==
    [][\A p \in CacheProcs :
          /\ (cpc[p] = "bu_put" /\ cpc'[p] # "bu_put")
                => /\ cpc'[p] = "bu_enqueue"
                   /\ LruGet(cache', carg[p].cid) = Ok(carg[p].block)
          /\ (cpc[p] = "bu_enqueue" /\ cpc'[p] # "bu_enqueue")
                => /\ cpc'[p] = "done"
                   /\ cret'[p] = Ok("unit")
                   /\ cache' = cache
                   /\ \/ queue' = queue /\ cdata'[p] = "dropped"
                      \/ /\ queue' = Append(queue,
                                BlockUploadTask(carg[p].cid, carg[p].block))
                         /\ cdata'[p] = "queued"]_vars

C8_Witness ==
    \E p \in CacheProcs :
        /\ cpc[p] = "done"
        /\ IsBlockUpload(p)
        /\ cdata[p] = "dropped"
        /\ queue = <<>>
        /\ cret[p] = Ok("unit")
        /\ LruGet(cache, carg[p].cid) = Ok(carg[p].block)

\* C9: a load_cid whose remote fetch fails returns the error of the fetch as
\* it is, has made one fetch, and leaves the cache as it was; a lookup of the
\* same address that follows a miss with no cache operation between misses
\* again and goes to the remote fetch.
C9_FetchFailure ==
    [][\A p \in CacheProcs :
          /\ (cpc[p] = "lc_fetch" /\ cpc'[p] = "done")
                => /\ cdata'[p] \in FetchErrors
                   /\ cret'[p] = Err(cdata'[p])
                   /\ cfetch'[p] = 1
                   /\ cache' = cache
          /\ (LookupStep(p) /\ lastOp.op = "get" /\ lastOp.data = "miss"
                 /\ lastOp.cid = carg[p].cid)
                => cpc'[p] = "lc_fetch"]_vars

\* two calls have failed on the same address, each after one fetch
C9_Witness ==
    /\ \A p \in CacheProcs :
          /\ cpc[p] = "done"
          /\ IsLoadCid(p)
          /\ carg[p].cid = "k1"
          /\ cfetch[p] = 1
          /\ carg[p].cid \notin Keys(cache)
    /\ cret["p1"] = Err("e_notfound")
    /\ cret["p2"] = Err("e_timeout")
    /\ cache = <<>>

(***************************************************************************)
(* Properties of commit acceptance                                         *)
(***************************************************************************)
Ev(p) == Events[aarg[p].ev]

\* the call of p has ended
Done(p) == apc[p] = "done"

\* the call of p has neither called save_stream nor insert_task
NothingDone(p) == ahist[p].saves = 0 /\ ahist[p].inserts = 0

\* the call of p repeats the caller's previous call, which accepted the
\* commit: it persisted the record and returned the state
RepeatsAccepted(p) ==
    /\ aprev[p].call = aarg[p]
    /\ aprev[p].ret.ok
    /\ aprev[p].persisted = 1

\* the second call returned what the first returned and did nothing else
SameAndNothingMore(p) ==
    /\ aret[p] = aprev[p].ret
    /\ ~ahist[p].verified
    /\ NothingDone(p)

\* C3: a call that repeats the call that accepted the commit
\* returns the same state and neither verifies, persists nor enqueues, so
\* that the two calls persist once and enqueue at most one set of tasks.
C3_Idempotent ==
    \A p \in AcceptProcs : (Done(p) /\ RepeatsAccepted(p)) => SameAndNothingMore(p)

\* C4: when the chain of the stream has been loaded and the commit declares a
\* prev that is the address of none of the loaded commits, the call ends with
\* the missing-predecessor error, before any verification of the signature,
\* and calls neither save_stream nor insert_task.
C4_MissingPredecessor ==
    \A p \in AcceptProcs :
        (/\ ahist[p].loaded = "ok"
         /\ apc[p] # "check"
         /\ Ev(p).prevOk
         /\ Ev(p).prev # "-"
         /\ Ev(p).prev \notin Range(achain[p]))
            => /\ Done(p)
               /\ aret[p] = MissingPredecessor
               /\ ~ahist[p].verified
               /\ NothingDone(p)
               /\ store[aarg[p].stream] = abefore[p]

\* the commit with the unknown prev and a signature that would not verify
C4_Witness ==
    \E p \in AcceptProcs :
        /\ Done(p)
        /\ aarg[p].ev = "x2"
        /\ ahist[p].loaded = "ok"
        /\ aret[p] = MissingPredecessor
        /\ Ev(p).resources = {"M2"}
        /\ store[aarg[p].stream].present

\* C5, as claimed: a call with an anchor commit always ends with the
\* anchor-not-supported error, without a read or write of the record store
\* and without an enqueue.
C5_AnchorAlwaysNotSupported ==
    \A p \in AcceptProcs :
        (Done(p) /\ Ev(p).kind = "Anchor")
            => /\ aret[p] = AnchorNotSupported
               /\ ahist[p].read = "-"
               /\ NothingDone(p)

\* C5, amended: a call with an anchor commit always fails, with the
\* anchor-not-supported error when get_dapp_ceramic succeeded and with the
\* error of get_dapp_ceramic otherwise; it never reads or writes the record
\* store and never enqueues.
C5_AnchorRejected ==
    \A p \in AcceptProcs :
        (aarg[p] # NoCall /\ Ev(p).kind = "Anchor")
            => /\ apc[p] \in {"get_ceramic", "done"}
               /\ ahist[p].read = "-"
               /\ ahist[p].loaded = "-"
               /\ NothingDone(p)
               /\ store[aarg[p].stream] = abefore[p]
               /\ Done(p) =>
                     /\ ~aret[p].ok
                     /\ ahist[p].ceramic = "ok" => aret[p] = AnchorNotSupported
                     /\ ahist[p].ceramic = "failed"
                           => aret[p] = Err("get_dapp_ceramic")

\* an anchor commit was refused for a stream that has a record
C5_Witness ==
    \E p \in AcceptProcs :
        /\ Done(p)
        /\ Ev(p).kind = "Anchor"
        /\ store[aarg[p].stream].present
        /\ ahist[p].ceramic = "ok"
        /\ aret[p] = AnchorNotSupported

\* the signature of the commit of p does not verify at tick t: the model of
\* the stream is not among its resources, or it has expired
Unverifiable(p, t) ==
    LET model == Events[Append(achain[p], aarg[p].ev)[1]].model
    IN \/ model \notin Ev(p).resources
       \/ Ev(p).exp # 0 /\ Ev(p).exp <= t

\* C6: a call whose commit does not verify when the signature is checked ends
\* there with the error of the verification: save_stream and insert_task are
\* never called and the record of the stream is as it was.
C6_VerificationFailure ==
    \A p \in AcceptProcs :
        (ahist[p].verified /\ Unverifiable(p, ahist[p].checkedAt))
            => /\ Done(p)
               /\ aret[p] \in {SignatureInvalid, CommitExpired}
               /\ NothingDone(p)
               /\ store[aarg[p].stream] = abefore[p]

\* an expired commit was refused for a stream that has a record
C6_Witness ==
    \E p \in AcceptProcs :
        /\ Done(p)
        /\ aarg[p].ev = "c2"
        /\ ahist[p].checkedAt = 1
        /\ aret[p] = CommitExpired
        /\ store[aarg[p].stream].present
        /\ queue = <<>>

\* C7: once save_stream has succeeded and upload_event has gone on to its
\* two enqueues, the call returns Ok with the state derived from the loaded
\* commits and the new one, whether or not the tasks could be inserted: a
\* call in which an insert_task failed has not returned an error, and the
\* record stays persisted.
C7_DispatchFailureSwallowed ==
    \A p \in AcceptProcs :
        (Done(p) /\ ahist[p].persisted = 1)
            => /\ ahist[p].uploaded = "ok"
                     => /\ aret[p] = Ok(StreamStateOf(Append(achain[p],
                                                             aarg[p].ev)))
                        /\ ahist[p].inserts = 2
               /\ ahist[p].dropped > 0 => ahist[p].uploaded = "ok" /\ aret[p].ok
               /\ store[aarg[p].stream].tip = aarg[p].ev

\* both inserts failed, the call returned the state
C7_Witness ==
    \E p \in AcceptProcs :
        /\ Done(p)
        /\ ahist[p].persisted = 1
        /\ ahist[p].dropped = 2
        /\ queue = <<>>
        /\ aret[p].ok
        /\ aret[p].val.tip = aarg[p].ev

\* C10: when load_stream finds no record, a commit that is not a genesis
\* commit ends the call with the unknown-stream error, and neither
\* save_stream nor insert_task is called; a call that began without record
\* and persisted one carried a signed genesis commit.
C10_UnknownStream ==
    \A p \in AcceptProcs :
        /\ (ahist[p].read = "absent" /\ ~(Ev(p).prev = "-" /\ Ev(p).prevOk))
              => /\ Done(p)
                 /\ aret[p] = UnknownStream
                 /\ ~ahist[p].verified
                 /\ NothingDone(p)
                 /\ ~store[aarg[p].stream].present
        /\ (ahist[p].persisted > 0 /\ ~abefore[p].present)
              => /\ Ev(p).kind = "Signed"
                 /\ Ev(p).prev = "-"

\* a signed commit with a good signature, not a genesis commit, was refused
\* for a stream without record
C10_Witness ==
    \E p \in AcceptProcs :
        /\ Done(p)
        /\ aarg[p].ev = "c1"
        /\ ahist[p].read = "absent"
        /\ aret[p] = UnknownStream
        /\ ~store[aarg[p].stream].present

(***************************************************************************)
(* Concurrency of the content cache                                        *)
(***************************************************************************)
\* the steps of load_cid and block_upload that read or write the map
MapStep(p) == cpc[p] \in {"lc_get", "lc_put", "bu_put"}

\* C14: the cache lock is held only by a caller that is at a read or a write
\* of the map (the lookup, the insert after a fetch, the put of an upload),
\* never by a caller whose remote fetch is in progress or pending: while a
\* load_cid waits for the network the lock is free or held by another caller
\* for its own map step.
C14_LockNotHeldAcrossFetch ==
    \A p \in CacheProcs :
        /\ lock = p => MapStep(p)
        /\ cpc[p] \in {"lc_fetch", "lc_lock2"} =>
              /\ lock # p
              /\ lock # "free" => MapStep(lock)

\* a load_cid of k1 waits for the network (its lookup missed) while another
\* caller holds the lock for the put of another address
C14_Witness ==
    /\ cpc["p1"] = "lc_fetch"
    /\ carg["p1"].cid = "k1"
    /\ lock = "p2"
    /\ cpc["p2"] = "bu_put"
    /\ carg["p2"].cid = "k2"

\* the entries the cache holds for address k
EntriesOf(k) == {i \in 1..Len(cache) : cache[i].cid = k}

\* the last calls of p and q are load_cid calls for k that both missed and
\* both called the remote fetch
BothFetched(p, q, k) ==
    /\ p # q
    /\ IsLoadCid(p) /\ IsLoadCid(q)
    /\ carg[p].cid = k /\ carg[q].cid = k
    /\ cfetch[p] = 1 /\ cfetch[q] = 1

\* the remote fetch of the call of p succeeded
Fetched(p) == cdata[p] = RemoteData[carg[p].cid]

\* C15: when two load_cid calls for the same address both miss and both
\* fetch, each call whose fetch succeeded returns the fetched bytes, the
\* cache never holds two entries for the address, and once both have
\* returned the fetched bytes the cache holds exactly one entry for it.
C15_ConcurrentMisses ==
    \A p, q \in CacheProcs, k \in Cids :
        BothFetched(p, q, k) =>
            /\ cpc[p] = "done" /\ Fetched(p) => cret[p] = Ok(RemoteData[k])
            /\ Cardinality(EntriesOf(k)) <= 1
            /\ (/\ cpc[p] = "done" /\ cpc[q] = "done"
                /\ Fetched(p) /\ Fetched(q))
               => /\ Cardinality(EntriesOf(k)) = 1
                  /\ \A i \in EntriesOf(k) : cache[i].data = RemoteData[k]

\* the only two calls made are load_cid calls for k1: both missed, both
\* fetched, both returned the bytes, one entry is cached
C15_Witness ==
    /\ ccalls = 2
    /\ BothFetched("p1", "p2", "k1")
    /\ cpc["p1"] = "done" /\ cpc["p2"] = "done"
    /\ cret["p1"] = Ok("b1") /\ cret["p2"] = Ok("b1")
    /\ cache = <<[cid |-> "k1", data |-> "b1"]>>

(***************************************************************************)
(* Concurrency of commit acceptance                                        *)
(***************************************************************************)
\* the calls of p and q, for stream s, have both returned success for two
\* different commits that follow the last commit of the same loaded chain:
\* both loaded the chain before either persisted
RacedAccepts(p, q, s) ==
    /\ p # q
    /\ Done(p) /\ Done(q)
    /\ aarg[p].stream = s /\ aarg[q].stream = s
    /\ aarg[p].ev # aarg[q].ev
    /\ achain[p] # <<>> /\ achain[p] = achain[q]
    /\ ahist[p].extends /\ ahist[q].extends
    /\ ahist[p].persisted = 1 /\ ahist[q].persisted = 1
    /\ aret[p].ok /\ aret[q].ok

\* C16: after two concurrent save_event calls for one stream that both
\* loaded the same chain and both returned success for different successors
\* of its tip, the persisted record holds the tip of one of the two commits
\* and the content folded from the loaded chain and that commit alone: the
\* other commit is not part of the record.
C16_LostUpdate ==
    \A p, q \in AcceptProcs, s \in Streams :
        RacedAccepts(p, q, s) =>
            /\ store[s].tip \in {aarg[p].ev, aarg[q].ev}
            /\ store[s].content = FoldContent(Append(achain[p], store[s].tip))
            /\ \E l \in {aarg[p].ev, aarg[q].ev} :
                  /\ l # store[s].tip
                  /\ Events[l].bytes \notin Range(store[s].content)

\* c1 and c2 both follow g1, both calls returned the state they derived, and
\* the record of S1 holds c2 only
C16_Witness ==
    /\ RacedAccepts("a1", "a2", "S1")
    /\ aarg["a1"].ev = "c1" /\ aarg["a2"].ev = "c2"
    /\ achain["a1"] = <<"g1">>
    /\ aret["a1"] = Ok(StreamStateOf(<<"g1", "c1">>))
    /\ aret["a2"] = Ok(StreamStateOf(<<"g1", "c2">>))
    /\ store["S1"].tip = "c2"
    /\ store["S1"].content = <<"jws_g1", "jws_c2">>

(***************************************************************************)
(* Order of persist and dispatch in save_event                             *)
(***************************************************************************)
\* the tasks a step appended to the queue
NewTasks == {queue'[i] : i \in (Len(queue) + 1)..Len(queue')}

\* the task is an upload or an anchor request of commit e
TaskOf(t, e) ==
    \/ t.kind = "BlockUpload" /\ t.cid = e
    \/ t.kind = "RequestAnchor" /\ t.commit = e

\* C19: a step of save_event calls insert_task or changes the queue only when
\* the call's save_stream has succeeded and the record of the stream holds
\* the commit as its tip, and every task it enqueues is a task of that
\* commit; a step in which save_stream fails ends the call with the error of
\* save_stream, with the store and the queue as they were and no insert_task
\* called.
C19_DispatchAfterPersist ==
    [][/\ (queue' # queue \/ \E p \in AcceptProcs :
                                ahist'[p].inserts > ahist[p].inserts)
          => \E p \in AcceptProcs :
                /\ apc[p] \in {"bu_enqueue", "request_anchor"}
                /\ ahist[p].saves = 1 /\ ahist[p].persisted = 1
                /\ store[aarg[p].stream].present
                /\ store[aarg[p].stream].tip = aarg[p].ev
                /\ SubSeq(queue', 1, Len(queue)) = queue
                /\ \A t \in NewTasks : TaskOf(t, aarg[p].ev)
       /\ \A p \in AcceptProcs :
             (/\ ahist'[p].saves > ahist[p].saves
              /\ ahist'[p].persisted = ahist[p].persisted)
             => /\ apc'[p] = "done"
                /\ aret'[p] = Err("save_stream")
                /\ ahist'[p].inserts = 0
                /\ store' = store
                /\ queue' = queue]_vars

\* a call whose save_stream failed has returned that error: the record is the
\* one the call found and nothing was enqueued
C19_Witness ==
    /\ Done("a1")
    /\ aarg["a1"].ev = "c1"
    /\ ahist["a1"].verified
    /\ ahist["a1"].saves = 1 /\ ahist["a1"].persisted = 0
    /\ aret["a1"] = Err("save_stream")
    /\ ahist["a1"].inserts = 0
    /\ queue = <<>>
    /\ store[aarg["a1"].stream] = GenesisRecord

(***************************************************************************)
(* A failed load of the stream record                                      *)
(***************************************************************************)
\* the record save_event persists for genesis commit e on an empty chain
FirstRecord(e) == UpdatedStream(NewStream(e), StreamStateOf(<<e>>), e)

\* C20: a save_event call whose load_stream failed goes on as a call that
\* found no record: the chain it works on is empty and load_events is not
\* called; a commit that is not a genesis commit is rejected with the
\* unknown-stream error and nothing is saved or enqueued; a genesis commit
\* for which Stream::new succeeds is checked as the first commit of a stream
\* and, when its verification passes and save_stream succeeds, the record of
\* the stream is the record of a new stream whose tip is the genesis commit.
C20_LoadFailureAsAbsent ==
    \A p \in AcceptProcs :
        ahist[p].read = "failed" =>
            /\ achain[p] = <<>>
            /\ ahist[p].loaded = "-"
            /\ ~IsGenesis(aarg[p].ev) =>
                  /\ Done(p)
                  /\ aret[p] = UnknownStream
                  /\ NothingDone(p)
            /\ IsGenesis(aarg[p].ev) =>
                  /\ ahist[p].created = "ok" => astream[p].tip = aarg[p].ev
                  /\ ahist[p].created # "ok" =>
                        /\ Done(p)
                        /\ aret[p] = NewStreamFailed
                        /\ NothingDone(p)
                  /\ (Done(p) /\ ahist[p].verified
                      /\ VerifyError(aarg[p].ev, Ev(p).model, ahist[p].checkedAt).ok)
                     => \/ ahist[p].persisted = 1
                        \/ aret[p] = Err("save_stream")
                  /\ ahist[p].persisted = 1 =>
                        /\ store[aarg[p].stream] = FirstRecord(aarg[p].ev)
                        /\ store[aarg[p].stream].tip = aarg[p].ev

\* the record of S1 had tip c1; the load of the record failed for a call
\* with genesis commit g1, which was verified and persisted as a new stream
C20_Witness ==
    /\ Done("a1")
    /\ aarg["a1"] = [stream |-> "S1", ev |-> "g1"]
    /\ abefore["a1"].present /\ abefore["a1"].tip = "c1"
    /\ ahist["a1"].read = "failed"
    /\ ahist["a1"].persisted = 1
    /\ aret["a1"] = Ok(StreamStateOf(<<"g1">>))
    /\ store["S1"] = FirstRecord("g1")

(***************************************************************************)
(* Properties of request_anchor                                            *)
(***************************************************************************)
\* C18: a request_anchor call calls insert_task if and only if the commit is
\* a signed commit; the queue then holds, after the tasks it held before,
\* the anchor request of that commit for that stream when the insert
\* succeeded and is as before when it failed; for an anchor commit the queue
\* is as before; the call returns Ok(()) in every case.
C18_AnchorOnlyForSigned ==
    ranchor.op = "request_anchor" =>
        LET e == ranchor.ev
            signed == Events[e].kind = "Signed"
        IN /\ ranchor.ret = Ok("unit")
           /\ ranchor.tried <=> signed
           /\ (signed /\ ranchor.inserted)
                 => queue = Append(ranchor.before, AnchorTask(ranchor.stream, e))
           /\ (signed /\ ~ranchor.inserted) => queue = ranchor.before
           /\ Events[e].kind = "Anchor" => queue = ranchor.before

\* after a request for signed commit c1 was enqueued, a request for anchor
\* commit n1 returned Ok(()) and left the queue as it was
C18_Witness ==
    /\ ranchor.calls = 2
    /\ ranchor.op = "request_anchor"
    /\ ranchor.ev = "n1"
    /\ ranchor.ret = Ok("unit")
    /\ ranchor.before = <<AnchorTask("S1", "c1")>>
    /\ queue = <<AnchorTask("S1", "c1")>>

(***************************************************************************)
(* Properties of the stream state cache                                    *)
(***************************************************************************)
\* what the inner loader serves for the last call, if it succeeds
InnerValue ==
    IF slast.op = "load_stream_state" THEN InnerState(slast.id, slast.tip)
    ELSE IF slast.op = "load_events"
    THEN [id |-> slast.id, commits |-> InnerState(slast.id, slast.tip).version + 1]
    ELSE [s \in Streams |-> InnerState(s, NoTip)]

\* C17: the map of the stream state cache is empty after every step, and
\* every call (load_stream_state, load_events, load_stream_states) misses,
\* calls the inner loader and returns the inner loader's result: the error,
\* or the value the inner loader serves at the time of the call.
C17_NeverWritesBack ==
    [][/\ scache' = EmptyMap
       /\ slast' # slast =>
             /\ ~slast'.hit
             /\ slast'.inner # NoRet
             /\ slast'.ret = slast'.inner
             /\ slast'.ret.ok => slast'.ret.val = InnerValue']_vars

\* two load_stream_state calls for S1 in a row, a new commit in between: the
\* first returned version 0, the second returned version 1
C17_Witness ==
    /\ scache = EmptyMap
    /\ slast.op = "load_stream_state"
    /\ slast.id = "S1" /\ slast.tip = NoTip
    /\ slast.prevId = "S1"
    /\ slast.prevRet = Ok([id |-> "S1", version |-> 0])
    /\ slast.ret = Ok([id |-> "S1", version |-> 1])
    /\ sremote["S1"] = 1

(***************************************************************************)
(* Properties of batch resolution                                          *)
(***************************************************************************)
\* load_files has returned a result for a model of the given name
Resolved(model) == fpc = "done" /\ fcall.model = model /\ fret.ok

\* the entries of the result for the n-th stream of the batch
EntriesFor(n) ==
    {i \in 1..Len(fret.val) : fret.val[i].content_id = StateId(n)}

\* the folder decodes, its options decode and its access control is valid
WellFormedFolder(st) ==
    /\ st.content # Junk
    /\ st.content.options.kind # "bad"
    /\ st.content.acl

\* the signal set the folder declares
Declared(st) ==
    IF st.content.options.kind = "some" THEN st.content.options.signals ELSE {}

\* what the result holds for the n-th folder of the batch
FolderOutcome(n) ==
    LET st == fcall.states[n]
    IN IF WellFormedFolder(st)
       THEN /\ EntriesFor(n) # {} <=> RequiredSignals(fcall.options) \subseteq Declared(st)
            /\ \A i \in EntriesFor(n) : fret.val[i].status = "Ok"
       ELSE /\ EntriesFor(n) # {}
            /\ \A i \in EntriesFor(n) : fret.val[i].status = "BrokenFolder"

\* C11: in the result of load_files for an indexFolder model, a
\* well-formed folder with valid access control is present, and not marked
\* broken, if and only if its declared signals hold every required signal,
\* and a folder with malformed content, malformed options or failing access
\* control is present with status BrokenFolder whatever the options.
C11_FolderFilter ==
    Resolved("indexFolder") =>
        \A n \in 1..Len(fcall.states) : FolderOutcome(n)

\* the content of the n-th index file of the batch cannot be resolved: its
\* content stream fails to load or to attach
ContentUnresolved(n) ==
    LET cid == fcall.states[n].content.content_id
    IN cid # "bad" /\ fcall.contents[n] # "ok"

\* C12: load_files for an indexFile model whose index streams all decode
\* returns a result with one item per index stream of the batch, in which an
\* item whose content stream fails to load or to attach has status
\* BrokenContent and every other item has status Ok.
C12_ItemFailureDegrades ==
    (/\ fpc = "done"
     /\ fcall.model = "indexFile"
     /\ fcall.resolve = "ok"
     /\ \A n \in 1..Len(fcall.states) :
           fcall.states[n].view /\ fcall.states[n].content # Junk)
    => /\ fret.ok
       /\ Len(fret.val) = Len(fcall.states)
       /\ \A n \in 1..Len(fcall.states) :
             /\ fret.val[n].file_id = StateId(n)
             /\ fret.val[n].status =
                   IF ContentUnresolved(n) THEN "BrokenContent" ELSE "Ok"

\* the index files scanned that name the n-th stream of the batch
MatchesOf(n) ==
    {j \in 1..Len(fcall.index) :
        /\ fcall.index[j].content # Junk
        /\ fcall.index[j].content.content_id = StateId(n)}

\* C13: the result of load_files for a plain content model holds exactly one
\* entry for every content stream of the model and no other entry; the entry
\* has a file_id if and only if a scanned index file has the stream's
\* identifier as content_id, and then the file_id of such an index file; an
\* entry without file_id has status NakedStream.
C13_ReverseJoin ==
    Resolved("plain") =>
        /\ Len(fret.val) = Len(fcall.states)
        /\ \A n \in 1..Len(fcall.states) :
              /\ Cardinality(EntriesFor(n)) = 1
              /\ \A i \in EntriesFor(n) :
                    /\ fret.val[i].file_id # "-" <=> MatchesOf(n) # {}
                    /\ fret.val[i].file_id # "-" =>
                          \E j \in MatchesOf(n) : fret.val[i].file_id = IndexId(j)
                    /\ fret.val[i].file_id = "-" =>
                          fret.val[i].status = "NakedStream"

\* two content streams and one index file that names the first: the first
\* entry has the index file as its file half, the second is a NakedStream
C13_Witness ==
    /\ Resolved("plain")
    /\ Len(fcall.states) = 2
    /\ Len(fcall.index) = 1
    /\ fcall.index[1].content = [content_id |-> "s1"]
    /\ \E i, k \in 1..2 :
          /\ fret.val[i].content_id = "s1"
          /\ fret.val[i].file_id = "f1"
          /\ fret.val[i].status = "Ok"
          /\ fret.val[k].content_id = "s2"
          /\ fret.val[k].file_id = "-"
          /\ fret.val[k].status = "NakedStream"

====
